---- MODULE Spec2Model ----
(***************************************************************************)
(* Event Storming workflow of robo-architect: the LangGraph StateGraph     *)
(* built by create_event_storming_graph, its node functions, its routers   *)
(* and the EventStormingRunner facade (start / provide_feedback).          *)
(*                                                                         *)
(* The checkpoint of the one session (thread_id) of a runner is the triple *)
(* (values, next, last_node).  The engine runs one node per step, merges   *)
(* the node's delta into values, evaluates the node's outgoing edge on the *)
(* merged values, and stops before a node of interrupt_before unless the   *)
(* call is the resumption that follows update_state.                       *)
(*                                                                         *)
(* Strings whose characters matter (the feedback, compared through         *)
(* str.upper()) are sequences of one-character strings.  Fixed message     *)
(* texts are one-element sequences holding the text.                       *)
(***************************************************************************)
EXTENDS Integers, Sequences, FiniteSets, TLC

\* ------------------------------------------------------------------ bounds
\* longest list of bounded contexts the LLM returns in identify_bc
MaxBC == 2
\* number of provide_feedback calls explored in one session
MaxCalls == 4
\* most objects one extraction phase of the ingestion workflow returns
MaxItems == 1
\* number of pause_ingestion calls accepted in one ingestion session
MaxPauses == 2

\* ------------------------------------------------------------ value model
\* Python None (kept apart from every character sequence)
None == <<"<None>">>

\* the graph's terminal marker
END == "__end__"

APPROVED == <<"A", "P", "P", "R", "O", "V", "E", "D">>

\* the feedback strings a caller passes to provide_feedback:
\* "APPROVED", "approved", "Add" and the empty string
Feedbacks ==
    { APPROVED,
      <<"a", "p", "p", "r", "o", "v", "e", "d">>,
      <<"A", "d", "d">>,
      <<>> }

\* str.upper() on one character
UpperChar(c) ==
    CASE c = "a" -> "A"
      [] c = "d" -> "D"
      [] c = "e" -> "E"
      [] c = "o" -> "O"
      [] c = "p" -> "P"
      [] c = "r" -> "R"
      [] c = "v" -> "V"
      [] OTHER -> c

\* str.upper()
upper(s) == [i \in DOMAIN s |-> UpperChar(s[i])]

\* Python truthiness of an Optional[str]
Truthy(s) == s # None /\ Len(s) > 0

\* dict(d); d[k] = v
DictSet(d, k, v) == [x \in (DOMAIN d) \cup {k} |-> IF x = k THEN v ELSE d[x]]

\* {}
EmptyDict == [x \in {} |-> <<>>]

SystemMessage(content) == [content |-> content, type |-> "system"]
HumanMessage(content) == [content |-> content, type |-> "human"]
AIMessage(content) == [content |-> content, type |-> "ai"]

\* ------------------------------------------- outputs of external services
\* what the Neo4j client returns for the user stories
UserStoryLists == {<<>>, <<"US-1">>}

\* the BoundedContextCandidates the LLM proposes (id and user_story_ids):
\* one that owns the user story and one that owns none
BoundedContextCandidate ==
    { [id |-> "BC-A", user_story_ids |-> {"US-1"}],
      [id |-> "BC-B", user_story_ids |-> {}] }

\* sequences over S of length at most n
SeqUpTo(S, n) == UNION {[1..k -> S] : k \in 0..n}

\* response.bounded_contexts of the structured LLM call
BoundedContextLists == SeqUpTo(BoundedContextCandidate, MaxBC)

\* response.aggregates (aggregate ids)
AggregateLists == {<<>>, <<"AGG-1">>}

\* response.commands, response.events
CommandLists == {<<"CMD-1">>}
EventLists == {<<"EVT-1">>}

\* bc_uis collected for one bounded context
UILists == {<<>>, <<"UI-1">>}

\* response.policies
PolicyLists == {<<>>, <<"POL-1">>}

\* --------------------------------------------------------- workflow state
\* EventStormingState(): every field at its default
EventStormingState ==
    [ phase |-> "init",
      messages |-> <<>>,
      user_stories |-> <<>>,
      current_user_story_index |-> 0,
      bc_candidates |-> <<>>,
      approved_bcs |-> <<>>,
      current_bc_index |-> 0,
      breakdowns |-> <<>>,
      aggregate_candidates |-> EmptyDict,
      approved_aggregates |-> EmptyDict,
      command_candidates |-> EmptyDict,
      event_candidates |-> EmptyDict,
      readmodel_candidates |-> EmptyDict,
      ui_candidates |-> EmptyDict,
      policy_candidates |-> <<>>,
      approved_policies |-> <<>>,
      awaiting_human_approval |-> FALSE,
      human_feedback |-> None,
      error |-> None,
      processed_user_stories |-> 0,
      total_user_stories |-> 0 ]

\* add_messages without the reducer: the field is overwritten like the others
add_messages_overwrite(left, right) == right

\* the reducer of the Annotated field messages: new messages carry fresh
\* ids, so they are appended
add_messages(left, right) == left \o right

\* the fields that carry a reducer
Accumulators == {"messages"}

\* Merge that replaces the state: a field the delta does not provide falls
\* back to its default
Merge_replace(state, delta) ==
    [f \in DOMAIN state |->
        IF f \in DOMAIN delta
        THEN IF f \in Accumulators
             THEN add_messages(state[f], delta[f])
             ELSE delta[f]
        ELSE EventStormingState[f]]

\* merge of a node's return value (or of an update_state patch) into the
\* channel values: reducer for annotated fields, overwrite for the others,
\* fields absent from the delta untouched
Merge(state, delta) ==
    [f \in DOMAIN state |->
        IF f \in DOMAIN delta
        THEN IF f \in Accumulators
             THEN add_messages(state[f], delta[f])
             ELSE delta[f]
        ELSE state[f]]

\* ------------------------------------------------------------------ nodes
\* Every node is a function of the state (and of what the external service
\* returned) to the partial update it returns.  An update is a dict, so the
\* order of its keys carries no meaning: the updates below list their keys
\* in the order EventStormingState declares the fields.

Range(s) == {s[i] : i \in DOMAIN s}

init_node(state) ==
    [ phase |-> "load_user_stories",
      messages |-> <<SystemMessage(<<"SYSTEM_PROMPT">>)>> ]

\* user_stories: what the Neo4j client returned
load_user_stories_node(state, user_stories) ==
    IF Len(user_stories) = 0
    THEN [ phase |-> "complete",
           error |-> <<"No user stories found in Neo4j. Please load sample data first.">> ]
    ELSE [ phase |-> "identify_bc",
           messages |-> <<HumanMessage(<<"Loaded user stories">>)>>,
           user_stories |-> user_stories,
           total_user_stories |-> Len(user_stories) ]

\* bounded_contexts: response.bounded_contexts
identify_bc_node(state, bounded_contexts) ==
    [ phase |-> "approve_bc",
      messages |-> <<AIMessage(<<"I've identified Bounded Context candidates">>)>>,
      bc_candidates |-> bounded_contexts,
      awaiting_human_approval |-> TRUE ]

\* approve_bc_node that empties the candidate list when it promotes it
approve_bc_node_consuming(state) ==
    LET feedback == state.human_feedback IN
    IF Truthy(feedback) /\ upper(feedback) = APPROVED
    THEN [ phase |-> "breakdown_user_story",
           messages |-> << HumanMessage(APPROVED),
                           AIMessage(<<"Bounded Contexts approved! Moving to user story breakdown...">>) >>,
           bc_candidates |-> <<>>,
           approved_bcs |-> state.bc_candidates,
           current_bc_index |-> 0,
           awaiting_human_approval |-> FALSE,
           human_feedback |-> None ]
    ELSE IF Truthy(feedback)
    THEN [ phase |-> "identify_bc",
           messages |-> << HumanMessage(feedback),
                           AIMessage(<<"I'll revise the Bounded Contexts based on your feedback: ">> \o feedback) >>,
           awaiting_human_approval |-> FALSE,
           human_feedback |-> None ]
    ELSE [ awaiting_human_approval |-> TRUE ]

approve_bc_node(state) ==
    LET feedback == state.human_feedback IN
    IF Truthy(feedback) /\ upper(feedback) = APPROVED
    THEN [ phase |-> "breakdown_user_story",
           messages |-> << HumanMessage(APPROVED),
                           AIMessage(<<"Bounded Contexts approved! Moving to user story breakdown...">>) >>,
           approved_bcs |-> state.bc_candidates,
           current_bc_index |-> 0,
           awaiting_human_approval |-> FALSE,
           human_feedback |-> None ]
    ELSE IF Truthy(feedback)
    THEN [ phase |-> "identify_bc",
           messages |-> << HumanMessage(feedback),
                           AIMessage(<<"I'll revise the Bounded Contexts based on your feedback: ">> \o feedback) >>,
           awaiting_human_approval |-> FALSE,
           human_feedback |-> None ]
    ELSE [ awaiting_human_approval |-> TRUE ]

\* one UserStoryBreakdown (its user_story_id) per story of the current BC
breakdown_user_story_node(state) ==
    IF state.current_bc_index >= Len(state.approved_bcs)
    THEN [ phase |-> "extract_aggregates",
           current_bc_index |-> 0 ]
    ELSE LET current_bc == state.approved_bcs[state.current_bc_index + 1]
             bc_stories == SelectSeq(state.user_stories,
                                     LAMBDA us : us \in current_bc.user_story_ids)
         IN [ messages |-> <<AIMessage(<<"Analyzed user stories in BC. Moving to next BC...">>)>>,
              current_bc_index |-> state.current_bc_index + 1,
              breakdowns |-> state.breakdowns \o bc_stories ]

\* extract_aggregates_node that advances current_bc_index by two
extract_aggregates_node_stride(state, aggregates) ==
    IF state.current_bc_index >= Len(state.approved_bcs)
    THEN [ phase |-> "approve_aggregates",
           current_bc_index |-> 0,
           awaiting_human_approval |-> TRUE ]
    ELSE LET current_bc == state.approved_bcs[state.current_bc_index + 1]
         IN [ messages |-> <<AIMessage(<<"Identified aggregates for BC">>)>>,
              current_bc_index |-> state.current_bc_index + 2,
              aggregate_candidates |->
                  DictSet(state.aggregate_candidates, current_bc.id, aggregates) ]

\* aggregates: response.aggregates
extract_aggregates_node(state, aggregates) ==
    IF state.current_bc_index >= Len(state.approved_bcs)
    THEN [ phase |-> "approve_aggregates",
           current_bc_index |-> 0,
           awaiting_human_approval |-> TRUE ]
    ELSE LET current_bc == state.approved_bcs[state.current_bc_index + 1]
         IN [ messages |-> <<AIMessage(<<"Identified aggregates for BC">>)>>,
              current_bc_index |-> state.current_bc_index + 1,
              aggregate_candidates |->
                  DictSet(state.aggregate_candidates, current_bc.id, aggregates) ]

\* approve_aggregates_node whose rejection branch leaves the feedback in
\* the slot
approve_aggregates_node_keeping(state) ==
    LET feedback == state.human_feedback IN
    IF Truthy(feedback) /\ upper(feedback) = APPROVED
    THEN [ phase |-> "extract_commands",
           messages |-> << HumanMessage(APPROVED),
                           AIMessage(<<"Aggregates approved! Extracting commands...">>) >>,
           approved_aggregates |-> state.aggregate_candidates,
           awaiting_human_approval |-> FALSE,
           human_feedback |-> None ]
    ELSE IF Truthy(feedback)
    THEN [ phase |-> "extract_aggregates",
           messages |-> << HumanMessage(feedback),
                           AIMessage(<<"I'll revise the Aggregates based on your feedback: ">> \o feedback) >>,
           current_bc_index |-> 0,
           awaiting_human_approval |-> FALSE ]
    ELSE [ messages |-> <<AIMessage(<<"Please review the proposed Aggregates">>)>>,
           awaiting_human_approval |-> TRUE ]

approve_aggregates_node(state) ==
    LET feedback == state.human_feedback IN
    IF Truthy(feedback) /\ upper(feedback) = APPROVED
    THEN [ phase |-> "extract_commands",
           messages |-> << HumanMessage(APPROVED),
                           AIMessage(<<"Aggregates approved! Extracting commands...">>) >>,
           approved_aggregates |-> state.aggregate_candidates,
           awaiting_human_approval |-> FALSE,
           human_feedback |-> None ]
    ELSE IF Truthy(feedback)
    THEN [ phase |-> "extract_aggregates",
           messages |-> << HumanMessage(feedback),
                           AIMessage(<<"I'll revise the Aggregates based on your feedback: ">> \o feedback) >>,
           current_bc_index |-> 0,
           awaiting_human_approval |-> FALSE,
           human_feedback |-> None ]
    ELSE [ messages |-> <<AIMessage(<<"Please review the proposed Aggregates">>)>>,
           awaiting_human_approval |-> TRUE ]

\* the aggregate ids of the approved aggregates whose BC is an approved BC
ApprovedAggregateIds(state) ==
    UNION { Range(state.approved_aggregates[bc_id]) :
              bc_id \in { b \in DOMAIN state.approved_aggregates :
                            \E bc \in Range(state.approved_bcs) : bc.id = b } }

\* commands: response.commands
extract_commands_node(state, commands) ==
    [ phase |-> "extract_readmodels",
      messages |-> <<AIMessage(<<"Extracted commands for all aggregates. Moving to ReadModel extraction...">>)>>,
      command_candidates |->
          [agg_id \in (DOMAIN state.command_candidates) \cup ApprovedAggregateIds(state) |->
              IF agg_id \in ApprovedAggregateIds(state)
              THEN commands
              ELSE state.command_candidates[agg_id]] ]

\* events: response.events
extract_events_node(state, events) ==
    [ phase |-> "generate_ui",
      messages |-> <<AIMessage(<<"Extracted events for all commands. Generating UI wireframes...">>)>>,
      event_candidates |->
          [agg_id \in (DOMAIN state.event_candidates) \cup (DOMAIN state.command_candidates) |->
              IF agg_id \in DOMAIN state.command_candidates
              THEN events
              ELSE state.event_candidates[agg_id]] ]

\* bc_uis: the wireframes generated for a bounded context
generate_ui_node(state, bc_uis) ==
    LET bc_ids == IF Len(bc_uis) > 0
                  THEN {bc.id : bc \in Range(state.approved_bcs)}
                  ELSE {}
    IN [ phase |-> "identify_policies",
         messages |-> <<AIMessage(<<"Generated UI wireframes. Identifying cross-BC policies...">>)>>,
         ui_candidates |->
             [bc_id \in (DOMAIN state.ui_candidates) \cup bc_ids |->
                 IF bc_id \in bc_ids THEN bc_uis ELSE state.ui_candidates[bc_id]] ]

\* identify_policies_node that does not raise awaiting_human_approval
identify_policies_node_not_awaiting(state, policies) ==
    [ phase |-> "approve_policies",
      messages |-> <<AIMessage(<<"Identified cross-BC policies. Please review...">>)>>,
      policy_candidates |-> policies ]

\* policies: response.policies
identify_policies_node(state, policies) ==
    [ phase |-> "approve_policies",
      messages |-> <<AIMessage(<<"Identified cross-BC policies. Please review...">>)>>,
      policy_candidates |-> policies,
      awaiting_human_approval |-> TRUE ]

approve_policies_node(state) ==
    LET feedback == state.human_feedback IN
    IF Truthy(feedback) /\ upper(feedback) = APPROVED
    THEN [ phase |-> "save_to_graph",
           messages |-> << HumanMessage(APPROVED),
                           AIMessage(<<"Policies approved! Saving everything to Neo4j...">>) >>,
           approved_policies |-> state.policy_candidates,
           awaiting_human_approval |-> FALSE,
           human_feedback |-> None ]
    ELSE IF Truthy(feedback)
    THEN [ phase |-> "identify_policies",
           messages |-> << HumanMessage(feedback),
                           AIMessage(<<"I'll revise the Policies based on your feedback: ">> \o feedback) >>,
           awaiting_human_approval |-> FALSE,
           human_feedback |-> None ]
    ELSE [ messages |-> <<AIMessage(<<"Please review the proposed Policies">>)>>,
           awaiting_human_approval |-> TRUE ]

\* saved: the Neo4j writes went through (FALSE: one raised and was caught)
save_to_graph_node(state, saved) ==
    IF saved
    THEN [ phase |-> "complete",
           messages |-> <<AIMessage(<<"Successfully saved to Neo4j!">>)>> ]
    ELSE [ phase |-> "complete",
           messages |-> <<AIMessage(<<"Error saving to Neo4j">>)>>,
           error |-> <<"Neo4j error">> ]

\* ---------------------------------------------------------------- routers
route_after_bc_approval(state) ==
    IF Len(state.approved_bcs) > 0
    THEN "breakdown_user_story"
    ELSE "identify_bc"

route_after_aggregate_approval(state) ==
    IF DOMAIN state.approved_aggregates # {}
    THEN "extract_commands"
    ELSE "extract_aggregates"

\* route_after_policy_approval without the test that the phase was sent
\* back to identify_policies
route_after_policy_approval_no_phase(state) ==
    IF state.phase = "save_to_graph"
    THEN "save_to_graph"
    ELSE IF ~state.awaiting_human_approval
    THEN "save_to_graph"
    ELSE "identify_policies"

route_after_policy_approval(state) ==
    IF state.phase = "save_to_graph"
    THEN "save_to_graph"
    ELSE IF ~state.awaiting_human_approval /\ state.phase # "identify_policies"
    THEN "save_to_graph"
    ELSE "identify_policies"

\* route_breakdown that leaves the loop one bounded context early
route_breakdown_early(state) ==
    IF state.current_bc_index + 1 < Len(state.approved_bcs)
    THEN "breakdown_user_story"
    ELSE "extract_aggregates"

route_breakdown(state) ==
    IF state.current_bc_index < Len(state.approved_bcs)
    THEN "breakdown_user_story"
    ELSE "extract_aggregates"

\* route_aggregate_extraction that leaves the loop one bounded context early
route_aggregate_extraction_early(state) ==
    IF state.current_bc_index + 1 < Len(state.approved_bcs)
    THEN "extract_aggregates"
    ELSE "approve_aggregates"

route_aggregate_extraction(state) ==
    IF state.current_bc_index < Len(state.approved_bcs)
    THEN "extract_aggregates"
    ELSE "approve_aggregates"

\* ------------------------------------------------------------------ graph
\* the nodes registered with add_node
Nodes ==
    { "init", "load_user_stories", "identify_bc", "approve_bc",
      "breakdown_user_story", "extract_aggregates", "approve_aggregates",
      "extract_commands", "extract_events", "generate_ui",
      "identify_policies", "approve_policies", "save_to_graph" }

\* the entry point
EntryPoint == "init"

\* interrupt_before without the policy review
interrupt_before_two == {"approve_bc", "approve_aggregates"}

\* interrupt_before of graph.compile
interrupt_before == {"approve_bc", "approve_aggregates", "approve_policies"}

\* the edge leaving node, evaluated on the state the node's delta was
\* merged into (add_edge / add_conditional_edges)
NextStep(node, state) ==
    CASE node = "init" -> "load_user_stories"
      [] node = "load_user_stories" -> "identify_bc"
      [] node = "identify_bc" -> "approve_bc"
      [] node = "approve_bc" -> route_after_bc_approval(state)
      [] node = "breakdown_user_story" -> route_breakdown(state)
      [] node = "extract_aggregates" -> route_aggregate_extraction(state)
      [] node = "approve_aggregates" -> route_after_aggregate_approval(state)
      [] node = "extract_commands" -> "extract_events"
      [] node = "extract_events" -> "generate_ui"
      [] node = "generate_ui" -> "identify_policies"
      [] node = "identify_policies" -> "approve_policies"
      [] node = "approve_policies" -> route_after_policy_approval(state)
      [] node = "save_to_graph" -> END

\* ------------------------------------------------ change-planning state
\* change_graph.py: ChangeScope, and the value of change_scope before
\* analyze_scope has run
ChangeScope == {"local", "cross_bc", "new_capability"}
NoScope == "None"

\* the plans (lists of ProposedChange) the LLM returns or a caller sends back
PlanLists == {<<>>, <<"CHG-1">>, <<"CHG-1", "CHG-2">>}

\* ChangePlanningState(): every field at its default
ChangePlanningState ==
    [ phase |-> "init",
      human_feedback |-> None,
      error |-> None,
      change_scope |-> NoScope,
      keywords_to_search |-> <<>>,
      related_objects |-> <<>>,
      proposed_changes |-> <<>>,
      awaiting_approval |-> FALSE,
      revision_count |-> 0,
      applied_changes |-> <<>> ]

\* ----------------------------------------------------------------- engine
VARIABLES
    values,          \* checkpoint: the channel values (an EventStormingState)
    next,            \* checkpoint: the node to run next, or END
    last_node,       \* checkpoint: the node that wrote last (update_state's as_node)
    pc,              \* "idle": no Runner call in progress; "streaming": inside graph.stream
    resuming,        \* the stream resumes an interrupted run: no interrupt before its first step
    current_state,   \* Runner._current_state: <<>> for None, else <<last streamed values>>
    calls,           \* number of provide_feedback calls made
    call_feedback,   \* argument of the latest provide_feedback call
    suspended_at,    \* the next step at the moment of the latest provide_feedback call
    call_trace,      \* the nodes the current (or latest) Runner call has executed, in order
    executed,        \* per node, how many times it has executed
    seen_feedback,   \* human_feedback as read by the latest approval step
    outcomes,        \* per approval step, how often it saw acceptance / rejection / no feedback
    last_delta,      \* the partial update returned by the latest step (or the latest patch)
    pass_execs,      \* per iteration step, executions in the pass that began at index 0
    pass_self,       \* per iteration step, self-edge transitions in that pass
    expected,        \* the call count a second caller read when it decided to answer, or NoCaller
    twin,            \* the checkpoint of a second run fed the same feedback and outputs
    cp_values,       \* change planning checkpoint: the channel values (a ChangePlanningState)
    cp_next,         \* change planning checkpoint: the node to run next, or END
    cp_last_node,    \* change planning checkpoint: the node that wrote last
    cp_pc,           \* "idle": no ChangePlanningRunner call in progress; "streaming": inside the graph
    cp_current_state, \* ChangePlanningRunner._current_state: <<>> for None, else <<state>>
    cp_calls,        \* number of ChangePlanningRunner.provide_feedback calls made
    cp_feedback,     \* argument of the latest ChangePlanningRunner.provide_feedback call
    cp_call_trace,   \* the nodes the current (or latest) ChangePlanningRunner call has executed
    cp_revision_before, \* revision_count when the latest provide_feedback call began
    api_feedback,    \* feedback argument of the latest run_change_planning call
    api_previous_plan, \* previous_plan argument of the latest run_change_planning call
    api_path,        \* the branch that call took: "revision" or "fresh" ("none" before any call)
    api_result,      \* what that call returned
    session_open,    \* the ingestion session is in _sessions
    status,          \* IngestionSession.status: the phase of the latest event
    progress,        \* IngestionSession.progress: the progress of the latest event
    is_paused,       \* IngestionSession.is_paused
    gen_pc,          \* where run_ingestion_workflow stands
    phase_no,        \* the workflow phase it is in (2..9)
    items_n,         \* how many objects the current phase extracted
    item_k,          \* how many of them it has handled
    terminal_events, \* COMPLETE and ERROR events in IngestionSession.events
    events_after_terminal, \* IngestionSession.events has an event after a COMPLETE or ERROR
    pauses,          \* number of pause_ingestion calls accepted
    request,         \* the pause/resume request the latest step served ("none": a workflow step)
    response,        \* the response to that request
    second_pc,       \* where a second run_ingestion_workflow on the same session stands
    second_phase     \* the workflow phase the second execution is in

\* the session of one Runner: its checkpoint, its call and their histories
runner_vars ==
    << values, next, last_node, pc, resuming, current_state, calls,
       call_feedback, suspended_at, call_trace, executed, seen_feedback,
       outcomes, last_delta, pass_execs, pass_self >>

\* what a Runner call on one event-storming session leaves alone: the
\* second caller, the second run and the other workflows
\* one ChangePlanningRunner and the latest run_change_planning call
change_vars ==
    << cp_values, cp_next, cp_last_node, cp_pc, cp_current_state, cp_calls,
       cp_feedback, cp_call_trace, cp_revision_before, api_feedback,
       api_previous_plan, api_path, api_result >>

\* one ingestion session and the generator that serves its stream
ingest_vars ==
    << session_open, status, progress, is_paused, gen_pc, phase_no, items_n,
       item_k, terminal_events, events_after_terminal, pauses, request,
       response, second_pc, second_phase >>

\* the workflows beside the event-storming session
service_vars == << change_vars, ingest_vars >>

other_vars == << expected, twin, service_vars >>

vars == << runner_vars, other_vars >>

\* LangGraph's START pseudo node
START == "__start__"

\* no second caller is about to answer
NoCaller == -1

\* a checkpoint: the channel values, the step to run next, the step that
\* wrote last
Checkpoint(v, n, l) == [values |-> v, next |-> n, last_node |-> l]

IterationSteps == {"breakdown_user_story", "extract_aggregates"}

\* how an approval step classifies the feedback it reads
FeedbackKind(feedback) ==
    IF feedback = None \/ Len(feedback) = 0 THEN "none"
    ELSE IF upper(feedback) = APPROVED THEN "accept"
    ELSE "reject"

\* a fresh ChangePlanningRunner, and no run_change_planning call yet
ChangeInit ==
    /\ cp_values = ChangePlanningState
    /\ cp_next = START
    /\ cp_last_node = START
    /\ cp_pc = "idle"
    /\ cp_current_state = <<>>
    /\ cp_calls = 0
    /\ cp_feedback = None
    /\ cp_call_trace = <<>>
    /\ cp_revision_before = 0
    /\ api_feedback = None
    /\ api_previous_plan = None
    /\ api_path = "none"
    /\ api_result = [scope |-> "local", changes |-> <<>>]

\* upload_document has created the session; nobody streams it yet
IngestInit ==
    /\ session_open = TRUE
    /\ status = "upload"
    /\ progress = 0
    /\ is_paused = FALSE
    /\ gen_pc = "created"
    /\ phase_no = 2
    /\ items_n = 0
    /\ item_k = 0
    /\ terminal_events = 0
    /\ events_after_terminal = FALSE
    /\ pauses = 0
    /\ request = "none"
    /\ response = "none"
    /\ second_pc = "none"
    /\ second_phase = 2

Init ==
    /\ values = EventStormingState
    /\ next = START
    /\ last_node = START
    /\ pc = "idle"
    /\ resuming = FALSE
    /\ current_state = <<>>
    /\ calls = 0
    /\ call_feedback = None
    /\ suspended_at = START
    /\ call_trace = <<>>
    /\ executed = [n \in Nodes |-> 0]
    /\ seen_feedback = None
    /\ outcomes = [n \in interrupt_before |-> [accept |-> 0, reject |-> 0, none |-> 0]]
    /\ last_delta = [phase |-> "init"]
    /\ pass_execs = [n \in IterationSteps |-> 0]
    /\ pass_self = [n \in IterationSteps |-> 0]
    /\ expected = NoCaller
    /\ twin = Checkpoint(EventStormingState, START, START)
    /\ ChangeInit
    /\ IngestInit

\* the stream loop stops when nothing is left to run or the next node is an
\* interrupt node
StreamStops(node) == node = END \/ node \in interrupt_before

\* One step of graph.stream: node runs on the checkpointed values unless
\* the run must first stop before it, its delta is merged, its outgoing
\* edge is evaluated on the merged values, the checkpoint is written and
\* the values are streamed to the Runner.
RunNode(node, delta) ==
    /\ pc = "streaming"
    /\ next = node
    /\ node \in interrupt_before => resuming
    /\ LET merged == Merge(values, delta)
           target == NextStep(node, merged)
       IN /\ values' = merged
          /\ next' = target
          /\ pc' = IF StreamStops(target) THEN "idle" ELSE "streaming"
          /\ current_state' = <<merged>>
          /\ IF node \in IterationSteps
             THEN LET fresh == values.current_bc_index = 0
                      e == IF fresh THEN 0 ELSE pass_execs[node]
                      t == IF fresh THEN 0 ELSE pass_self[node]
                  IN /\ pass_execs' = [pass_execs EXCEPT ![node] = e + 1]
                     /\ pass_self' = [pass_self EXCEPT ![node] =
                                         IF target = node THEN t + 1 ELSE t]
             ELSE UNCHANGED <<pass_execs, pass_self>>
    /\ last_node' = node
    /\ resuming' = FALSE
    /\ last_delta' = delta
    /\ call_trace' = Append(call_trace, node)
    /\ executed' = [executed EXCEPT ![node] = @ + 1]
    /\ IF node \in interrupt_before
       THEN /\ seen_feedback' = values.human_feedback
            /\ outcomes' = [outcomes EXCEPT
                               ![node][FeedbackKind(values.human_feedback)] = @ + 1]
       ELSE UNCHANGED <<seen_feedback, outcomes>>
    /\ UNCHANGED <<calls, call_feedback, suspended_at>>

\* EventStormingRunner.start on a fresh runner (the usage the class
\* documents: start() once, then provide_feedback at each approval point):
\* the input is written and streamed, the run begins at the entry point
start ==
    /\ pc = "idle"
    /\ current_state = <<>>
    /\ values' = EventStormingState
    /\ next' = EntryPoint
    /\ pc' = "streaming"
    /\ resuming' = FALSE
    /\ current_state' = <<EventStormingState>>
    /\ call_trace' = <<>>
    /\ UNCHANGED <<last_node, calls, call_feedback, suspended_at, executed,
                   seen_feedback, outcomes, last_delta, pass_execs, pass_self>>

\* EventStormingRunner.provide_feedback(feedback): update_state writes the
\* patch as the node that wrote last and re-evaluates that node's edge,
\* then stream(None) resumes
provide_feedback(feedback) ==
    /\ pc = "idle"
    /\ current_state # <<>>
    /\ calls < MaxCalls
    /\ LET patch == [awaiting_human_approval |-> FALSE, human_feedback |-> feedback]
           patched == Merge(values, patch)
           target == NextStep(last_node, patched)
       IN /\ values' = patched
          /\ next' = target
          /\ pc' = IF target = END THEN "idle" ELSE "streaming"
          /\ last_delta' = patch
    /\ resuming' = TRUE
    /\ calls' = calls + 1
    /\ call_feedback' = feedback
    /\ suspended_at' = next
    /\ call_trace' = <<>>
    /\ UNCHANGED <<last_node, current_state, executed, seen_feedback, outcomes,
                   pass_execs, pass_self>>

Start == start /\ UNCHANGED other_vars

init ==
    /\ RunNode("init", init_node(values))
    /\ UNCHANGED other_vars

load_user_stories ==
    \E user_stories \in UserStoryLists :
        /\ RunNode("load_user_stories", load_user_stories_node(values, user_stories))
        /\ UNCHANGED other_vars

identify_bc ==
    \E bounded_contexts \in BoundedContextLists :
        /\ RunNode("identify_bc", identify_bc_node(values, bounded_contexts))
        /\ UNCHANGED other_vars

approve_bc ==
    /\ RunNode("approve_bc", approve_bc_node(values))
    /\ UNCHANGED other_vars

breakdown_user_story ==
    /\ RunNode("breakdown_user_story", breakdown_user_story_node(values))
    /\ UNCHANGED other_vars

extract_aggregates ==
    \E aggregates \in AggregateLists :
        /\ RunNode("extract_aggregates", extract_aggregates_node(values, aggregates))
        /\ UNCHANGED other_vars

approve_aggregates ==
    /\ RunNode("approve_aggregates", approve_aggregates_node(values))
    /\ UNCHANGED other_vars

extract_commands ==
    \E commands \in CommandLists :
        /\ RunNode("extract_commands", extract_commands_node(values, commands))
        /\ UNCHANGED other_vars

extract_events ==
    \E events \in EventLists :
        /\ RunNode("extract_events", extract_events_node(values, events))
        /\ UNCHANGED other_vars

generate_ui ==
    \E bc_uis \in UILists :
        /\ RunNode("generate_ui", generate_ui_node(values, bc_uis))
        /\ UNCHANGED other_vars

identify_policies ==
    \E policies \in PolicyLists :
        /\ RunNode("identify_policies", identify_policies_node(values, policies))
        /\ UNCHANGED other_vars

approve_policies ==
    /\ RunNode("approve_policies", approve_policies_node(values))
    /\ UNCHANGED other_vars

save_to_graph ==
    \E saved \in BOOLEAN :
        /\ RunNode("save_to_graph", save_to_graph_node(values, saved))
        /\ UNCHANGED other_vars

ProvideFeedback ==
    \E feedback \in Feedbacks : provide_feedback(feedback) /\ UNCHANGED other_vars

Next ==
    \/ Start
    \/ ProvideFeedback
    \/ init
    \/ load_user_stories
    \/ identify_bc
    \/ approve_bc
    \/ breakdown_user_story
    \/ extract_aggregates
    \/ approve_aggregates
    \/ extract_commands
    \/ extract_events
    \/ generate_ui
    \/ identify_policies
    \/ approve_policies
    \/ save_to_graph

Spec == Init /\ [][Next]_vars

\* ----------------------------------------------------------------- claims
\* a Runner call has returned and the session waits before an interrupt step
Suspended == pc = "idle" /\ current_state # <<>> /\ next \in interrupt_before

\* C1: whenever start() or provide_feedback() has returned with the session
\* suspended before an interrupt step, the stored state has
\* awaiting_human_approval = true and that approval step is not the step
\* that ran last (it has not run since the suspension began), on the first
\* arrival and on every re-arrival after a rejected review.
C1_InterruptFidelity ==
    Suspended =>
        /\ values.awaiting_human_approval = TRUE
        /\ last_node # next
        /\ (call_trace # <<>> => call_trace[Len(call_trace)] # next)

\* the three review checkpoints, with the step that produces the candidates
\* of each, the production step that follows it, and its two fields
ApprovalSteps == {"approve_bc", "approve_aggregates", "approve_policies"}

ProducerOf(n) ==
    CASE n = "approve_bc" -> "identify_bc"
      [] n = "approve_aggregates" -> "extract_aggregates"
      [] n = "approve_policies" -> "identify_policies"

ProductionAfter(n) ==
    CASE n = "approve_bc" -> "breakdown_user_story"
      [] n = "approve_aggregates" -> "extract_commands"
      [] n = "approve_policies" -> "save_to_graph"

CandidateField(n) ==
    CASE n = "approve_bc" -> "bc_candidates"
      [] n = "approve_aggregates" -> "aggregate_candidates"
      [] n = "approve_policies" -> "policy_candidates"

ApprovedField(n) ==
    CASE n = "approve_bc" -> "approved_bcs"
      [] n = "approve_aggregates" -> "approved_aggregates"
      [] n = "approve_policies" -> "approved_policies"

\* the approval step n is the step that ran last, and it read feedback of
\* the given kind
JustRan(n, kind) == last_node = n /\ FeedbackKind(seen_feedback) = kind

\* the log holds the feedback as a human message
Logged(feedback) ==
    \E i \in DOMAIN values.messages : values.messages[i] = HumanMessage(feedback)

\* C2: a provide_feedback call on a suspended session executes exactly one
\* interrupt step, the one the session was suspended before, as its first
\* step; every later step of the call is a non-interrupt step, and the call
\* runs on until the next step is an interrupt step or the terminal marker.
C2_OneInterruptStepPerCall ==
    (calls > 0 /\ suspended_at \in ApprovalSteps) =>
        /\ call_trace # <<>> => call_trace[1] = suspended_at
        /\ \A i \in 2..Len(call_trace) : call_trace[i] \notin ApprovalSteps
        /\ pc = "idle" =>
              /\ Len(call_trace) >= 1
              /\ next \in ApprovalSteps \cup {END}
        /\ (pc = "streaming" /\ call_trace # <<>>) =>
              next \notin ApprovalSteps \cup {END}

\* a resumed call ran the approval step and three more steps up to the next
\* suspension
C2_Witness ==
    /\ calls > 0
    /\ pc = "idle"
    /\ suspended_at = "approve_bc"
    /\ Len(call_trace) >= 4
    /\ call_trace[1] = "approve_bc"
    /\ next = "approve_aggregates"

\* C3: when an approval step has executed with accepting feedback
\* (feedback.upper() == "APPROVED"), the next step is the next production
\* step, whatever candidate set the producer returned, the empty one
\* included.
C3_AcceptanceAdvances ==
    \A n \in ApprovalSteps :
        JustRan(n, "accept") => next = ProductionAfter(n)

\* C4: when an approval step has executed with non-empty feedback other
\* than "APPROVED", the next step is the producer of the candidates, it
\* runs in the same call, and the feedback is still in the state
\* (human_feedback or the messages log) when it runs.
C4_RejectionReturnsToProducer ==
    \A n \in ApprovalSteps :
        JustRan(n, "reject") =>
            /\ next = ProducerOf(n)
            /\ pc = "streaming"
            /\ (values.human_feedback = seen_feedback \/ Logged(seen_feedback))

\* identify_policies has run again after a rejected policy review, with the
\* rejecting feedback in the log
C4_Witness ==
    /\ last_node = "identify_policies"
    /\ outcomes["approve_policies"].reject >= 1
    /\ executed["identify_policies"] >= 2
    /\ seen_feedback = <<"A", "d", "d">>
    /\ Logged(<<"A", "d", "d">>)

\* C5: an approval step that consumed feedback (acceptance or rejection)
\* returned both awaiting_human_approval and human_feedback, and the merged
\* state has awaiting_human_approval = false and human_feedback = None; when
\* the call that ran it returns, the consumed feedback is no longer in the
\* slot.
C5_FeedbackConsumed ==
    /\ \A n \in ApprovalSteps :
          (JustRan(n, "accept") \/ JustRan(n, "reject")) =>
              /\ {"awaiting_human_approval", "human_feedback"} \subseteq DOMAIN last_delta
              /\ values.awaiting_human_approval = FALSE
              /\ values.human_feedback = None
    /\ ( /\ pc = "idle"
         /\ call_trace # <<>>
         /\ call_trace[1] \in ApprovalSteps
         /\ FeedbackKind(seen_feedback) \in {"accept", "reject"} )
       => values.human_feedback = None

\* the aggregate review consumed a rejection and the call has returned at
\* the next suspension
C5_Witness ==
    /\ pc = "idle"
    /\ call_trace # <<>>
    /\ call_trace[1] = "approve_aggregates"
    /\ FeedbackKind(seen_feedback) = "reject"
    /\ next = "approve_aggregates"
    /\ values.human_feedback = None

\* C6: an approval step never changes the candidate field it reviews; on
\* acceptance the approved field becomes the candidate field's value, on
\* rejection the approved field is unchanged.
C6_PromotionFrame ==
    [][ \A n \in ApprovalSteps :
          executed'[n] = executed[n] + 1 =>
              /\ values'[CandidateField(n)] = values[CandidateField(n)]
              /\ FeedbackKind(values.human_feedback) = "accept" =>
                    values'[ApprovedField(n)] = values[CandidateField(n)]
              /\ FeedbackKind(values.human_feedback) = "reject" =>
                    values'[ApprovedField(n)] = values[ApprovedField(n)]
      ]_vars

\* approve_bc has promoted a non-empty candidate list after an earlier
\* rejection
C6_Witness ==
    /\ JustRan("approve_bc", "accept")
    /\ outcomes["approve_bc"].reject >= 1
    /\ Len(values.bc_candidates) > 0
    /\ values.approved_bcs = values.bc_candidates

\* the messages a delta carries
DeltaMessages(delta) ==
    IF "messages" \in DOMAIN delta THEN delta.messages ELSE <<>>

\* C7: after every step len(messages) has grown by exactly the number of
\* messages in the step's delta; no operation of the session shortens
\* messages, and provide_feedback's patch leaves it as it is.
C7_MessagesAccumulate ==
    [][ /\ executed' # executed =>
              Len(values'.messages) = Len(values.messages) + Len(DeltaMessages(last_delta'))
        /\ Len(values'.messages) >= Len(values.messages)
        /\ calls' # calls => values'.messages = values.messages
      ]_vars

\* steps of two calls have appended to the log
C7_Witness ==
    /\ calls >= 2
    /\ last_node = "approve_aggregates"
    /\ Len(DeltaMessages(last_delta)) = 2
    /\ Len(values.messages) >= 7

\* C8: after a step every non-accumulator field equals the delta's value
\* when the delta provides it and is unchanged otherwise; the patch of
\* provide_feedback changes human_feedback and awaiting_human_approval only.
C8_OverwriteFrame ==
    [][ /\ executed' # executed =>
              \A f \in (DOMAIN values) \ Accumulators :
                  values'[f] = IF f \in DOMAIN last_delta' THEN last_delta'[f] ELSE values[f]
        /\ calls' # calls =>
              \A f \in (DOMAIN values) \ {"human_feedback", "awaiting_human_approval"} :
                  values'[f] = values[f]
      ]_vars

\* the patch has been written into a suspended state that holds candidates
\* and approved items
C8_Witness ==
    /\ pc = "streaming"
    /\ call_trace = <<>>
    /\ next = "approve_aggregates"
    /\ values.human_feedback = <<"A", "d", "d">>
    /\ values.awaiting_human_approval = FALSE
    /\ Len(values.approved_bcs) = 2
    /\ DOMAIN values.aggregate_candidates # {}

\* the iteration step n has just taken its exit edge
TookExitEdge(n) == last_node = n /\ next # n

\* C9 as stated: with N approved bounded contexts and current_bc_index
\* starting at 0, an iteration step transitions through its self-edge
\* exactly N times before its router takes the exit edge.
C9_SelfEdgeNTimes ==
    \A n \in IterationSteps :
        TookExitEdge(n) => pass_self[n] = Len(values.approved_bcs)

\* C9 amended: with N approved bounded contexts and current_bc_index
\* starting at 0, an iteration step executes exactly N times and transitions
\* through its self-edge exactly N - 1 times before its router takes the
\* exit edge.
C9_IterationCount ==
    \A n \in IterationSteps :
        TookExitEdge(n) =>
            /\ pass_execs[n] = Len(values.approved_bcs)
            /\ pass_self[n] = Len(values.approved_bcs) - 1
            /\ values.current_bc_index = Len(values.approved_bcs)

\* the re-extraction pass over two bounded contexts after a rejected
\* aggregate review has taken its exit edge
C9_Witness ==
    /\ TookExitEdge("extract_aggregates")
    /\ outcomes["approve_aggregates"].reject >= 1
    /\ Len(values.approved_bcs) = 2
    /\ pass_execs["extract_aggregates"] = 2
    /\ pass_self["extract_aggregates"] = 1

\* C10: for k rejections followed by one acceptance at a review checkpoint,
\* the producer has executed exactly k + 1 times and the approval step
\* exactly k + 1 times, the following production step executes only after
\* the acceptance, and save_to_graph executes once.
C10_RevisionCounts ==
    \A n \in {"approve_bc", "approve_policies"} :
        /\ (outcomes[n].none = 0 /\ outcomes[n].accept = 1) =>
              /\ executed[ProducerOf(n)] = outcomes[n].reject + 1
              /\ executed[n] = outcomes[n].reject + 1
        /\ executed[ProductionAfter(n)] > 0 => outcomes[n].accept >= 1
        /\ executed["save_to_graph"] <= 1

\* ------------------------------------------------- the auto-approving loop
\* The loop of scripts/test_agent.py and generate_from_requirements.py:
\* while the workflow is not complete and reports no error, answer
\* 'APPROVED' if it is awaiting approval, otherwise stop.
AutoApprove ==
    /\ values.phase # "complete"
    /\ values.error = None
    /\ values.awaiting_human_approval
    /\ provide_feedback(APPROVED)
    /\ UNCHANGED other_vars

AutoApproveNext ==
    \/ Start
    \/ AutoApprove
    \/ init
    \/ load_user_stories
    \/ identify_bc
    \/ approve_bc
    \/ breakdown_user_story
    \/ extract_aggregates
    \/ approve_aggregates
    \/ extract_commands
    \/ extract_events
    \/ generate_ui
    \/ identify_policies
    \/ approve_policies
    \/ save_to_graph

\* the calls return and the steps of a running stream are taken
AutoApproveSpec == Init /\ [][AutoApproveNext]_vars /\ WF_vars(AutoApproveNext)

\* a user story was loaded and the one identification proposed a candidate
C11_Inputs ==
    /\ values.user_stories # <<>>
    /\ values.bc_candidates # <<>>
    /\ executed["identify_bc"] = 1

\* the inputs rule the run out: no user story, or no candidate proposed
C11_NoInputs ==
    \/ executed["load_user_stories"] >= 1 /\ values.user_stories = <<>>
    \/ executed["identify_bc"] >= 1 /\ values.bc_candidates = <<>>

C11_Completed ==
    /\ pc = "idle"
    /\ next = END
    /\ values.phase = "complete"
    /\ calls = 3

C11_AtSuspension ==
    (pc = "idle" /\ current_state # <<>> /\ C11_Inputs) =>
        \/ C11_Completed
        \/ /\ next \in ApprovalSteps
           /\ values.awaiting_human_approval
           /\ calls = CASE next = "approve_bc" -> 0
                        [] next = "approve_aggregates" -> 1
                        [] next = "approve_policies" -> 2

\* C11: with a user story and a bounded-context candidate, the
\* auto-approving loop finds awaiting_human_approval true at each of its
\* three suspensions (before approve_bc, approve_aggregates and
\* approve_policies) and the session reaches END with phase complete
\* after exactly three provide_feedback calls.
C11_AutoApproveCompletes ==
    /\ []C11_AtSuspension
    /\ <>(C11_Completed \/ C11_NoInputs)

\* the third approval has been given and the session is at END, complete
C11_Witness ==
    /\ C11_Inputs
    /\ C11_Completed
    /\ outcomes["approve_policies"].accept = 1
    /\ executed["save_to_graph"] = 1

\* ------------------------------------------- calls outside a suspension
\* a provide_feedback call was made in this step
FeedbackCall == calls' = calls + 1

\* the session ran to END: nothing is left to resume
Terminal == pc = "idle" /\ current_state # <<>> /\ next = END

\* C12: a provide_feedback call on a session that already advanced to END
\* is a no-op or is rejected: the checkpoint is as before and no step, in
\* particular save_to_graph, executes again.
C12_ResumeAfterEndIsNoOp ==
    [][ (Terminal /\ FeedbackCall) =>
            /\ values' = values
            /\ next' = END
            /\ pc' = "idle"
            /\ executed' = executed ]_vars

\* C13: usage errors never change the checkpoint: a provide_feedback call
\* on a session that is not suspended before an approval step writes
\* neither human_feedback nor awaiting_human_approval into the stored state
\* (the call before start() raises: provide_feedback is not enabled then).
C13_UsageErrorsKeepCheckpoint ==
    [][ (FeedbackCall /\ ~Suspended) =>
            /\ values'.human_feedback = values.human_feedback
            /\ values'.awaiting_human_approval = values.awaiting_human_approval ]_vars

\* ------------------------------------------------ two callers, one session
\* Two threads share one EventStormingRunner.  Both read the suspended
\* session; the schedule modelled is the one in which the second caller's
\* provide_feedback runs as a whole before or after the first caller's.

\* the second caller reads the suspended session and decides to answer it
Observe ==
    /\ Suspended
    /\ expected = NoCaller
    /\ expected' = calls
    /\ UNCHANGED << runner_vars, twin, service_vars >>

\* the second caller's provide_feedback: the same method, which compares
\* nothing with what the caller read
SecondCaller ==
    \E feedback \in Feedbacks :
        /\ expected # NoCaller
        /\ provide_feedback(feedback)
        /\ expected' = NoCaller
        /\ UNCHANGED << twin, service_vars >>

ConcurrentNext ==
    \/ Next
    \/ Observe
    \/ SecondCaller

ConcurrentSpec == Init /\ [][ConcurrentNext]_vars

\* the second caller's call runs after the other caller answered the
\* suspension it read
StaleResume == expected # NoCaller /\ expected' = NoCaller /\ expected # calls

\* C14: of two callers answering the same suspension only one advances the
\* session: the resume of the caller that comes second is refused, it
\* changes neither the checkpoint nor what has executed.
C14_StaleResumeRefused ==
    [][ StaleResume => UNCHANGED << values, next, executed >> ]_vars

\* --------------------------------------------------------- failing steps
\* C15: a step whose execution failed is not recorded as a delta: after a
\* persistence failure in save_to_graph the checkpoint still names
\* save_to_graph as the step to run next and the session is not complete.
C15_FailedStepNotRecorded ==
    (last_node = "save_to_graph" /\ "error" \in DOMAIN last_delta) =>
        /\ next = "save_to_graph"
        /\ values.phase # "complete"

\* ------------------------------------------------------- a second Runner
\* The process holding the Runner is lost between two calls and a new
\* EventStormingRunner(thread_id) is created: __init__ makes a new
\* MemorySaver and sets _current_state to None, so the new instance starts
\* from an empty store (the histories kept above are per Runner instance).
NewRunner ==
    /\ pc = "idle"
    /\ current_state # <<>>
    /\ values' = EventStormingState
    /\ next' = START
    /\ last_node' = START
    /\ pc' = "idle"
    /\ resuming' = FALSE
    /\ current_state' = <<>>
    /\ calls' = 0
    /\ call_feedback' = None
    /\ suspended_at' = START
    /\ call_trace' = <<>>
    /\ executed' = [n \in Nodes |-> 0]
    /\ seen_feedback' = None
    /\ outcomes' = [n \in interrupt_before |-> [accept |-> 0, reject |-> 0, none |-> 0]]
    /\ last_delta' = [phase |-> "init"]
    /\ pass_execs' = [n \in IterationSteps |-> 0]
    /\ pass_self' = [n \in IterationSteps |-> 0]
    /\ UNCHANGED other_vars

RestartNext ==
    \/ Next
    \/ NewRunner

RestartSpec == Init /\ [][RestartNext]_vars

\* C16: a session suspended at an interrupt survives the loss of the Runner
\* instance: the Runner created next with the same thread_id finds the same
\* checkpoint (values, next step, last writer), so that provide_feedback on
\* it resumes the same suspended step.
C16_SuspensionSurvivesRunner ==
    [][ (Suspended /\ current_state' = <<>>) =>
            /\ values' = values
            /\ next' = next
            /\ last_node' = last_node ]_vars

\* ------------------------------------------------------------ two runs
\* A second run against its own fresh store receives the same feedback
\* values and the same service outputs as the first, call by call and step
\* by step; twin is its checkpoint.

\* what the external service of a step may return (<<>>: the step calls none)
ServiceOutputs(node) ==
    CASE node = "load_user_stories" -> UserStoryLists
      [] node = "identify_bc" -> BoundedContextLists
      [] node = "extract_aggregates" -> AggregateLists
      [] node = "extract_commands" -> CommandLists
      [] node = "extract_events" -> EventLists
      [] node = "generate_ui" -> UILists
      [] node = "identify_policies" -> PolicyLists
      [] node = "save_to_graph" -> BOOLEAN
      [] OTHER -> {<<>>}

\* the update node returns on state when its service returns output
NodeDelta(node, state, output) ==
    CASE node = "init" -> init_node(state)
      [] node = "load_user_stories" -> load_user_stories_node(state, output)
      [] node = "identify_bc" -> identify_bc_node(state, output)
      [] node = "approve_bc" -> approve_bc_node(state)
      [] node = "breakdown_user_story" -> breakdown_user_story_node(state)
      [] node = "extract_aggregates" -> extract_aggregates_node(state, output)
      [] node = "approve_aggregates" -> approve_aggregates_node(state)
      [] node = "extract_commands" -> extract_commands_node(state, output)
      [] node = "extract_events" -> extract_events_node(state, output)
      [] node = "generate_ui" -> generate_ui_node(state, output)
      [] node = "identify_policies" -> identify_policies_node(state, output)
      [] node = "approve_policies" -> approve_policies_node(state)
      [] node = "save_to_graph" -> save_to_graph_node(state, output)

\* a stream step that merges the delta but does not evaluate the edge
StepCheckpoint_no_edge(c, node, delta) ==
    Checkpoint(Merge(c.values, delta), c.next, node)

\* the checkpoint a stream step writes: the delta merged, the edge leaving
\* node evaluated on the merged values
StepCheckpoint(c, node, delta) ==
    LET merged == Merge(c.values, delta)
    IN Checkpoint(merged, NextStep(node, merged), node)

\* the checkpoint update_state writes for provide_feedback(feedback)
PatchCheckpoint(c, feedback) ==
    LET patched == Merge(c.values,
                         [awaiting_human_approval |-> FALSE, human_feedback |-> feedback])
    IN Checkpoint(patched, NextStep(c.last_node, patched), c.last_node)

TwinStart ==
    /\ start
    /\ twin' = Checkpoint(EventStormingState, EntryPoint, twin.last_node)
    /\ UNCHANGED << expected, service_vars >>

TwinFeedback ==
    \E feedback \in Feedbacks :
        /\ provide_feedback(feedback)
        /\ twin' = PatchCheckpoint(twin, feedback)
        /\ UNCHANGED << expected, service_vars >>

\* both runs take the step; the second runs it on its own values
TwinStep ==
    \E node \in Nodes :
        \E output \in ServiceOutputs(node) :
            /\ RunNode(node, NodeDelta(node, values, output))
            /\ twin' = IF twin.next = node
                       THEN StepCheckpoint(twin, node, NodeDelta(node, twin.values, output))
                       ELSE twin
            /\ UNCHANGED << expected, service_vars >>

TwinNext ==
    \/ TwinStart
    \/ TwinFeedback
    \/ TwinStep

TwinSpec == Init /\ [][TwinNext]_vars

ConditionalEdges ==
    { "approve_bc", "breakdown_user_story", "extract_aggregates",
      "approve_aggregates", "approve_policies" }

\* the label the router of node returns on state
Router(node, state) ==
    CASE node = "approve_bc" -> route_after_bc_approval(state)
      [] node = "breakdown_user_story" -> route_breakdown(state)
      [] node = "extract_aggregates" -> route_aggregate_extraction(state)
      [] node = "approve_aggregates" -> route_after_aggregate_approval(state)
      [] node = "approve_policies" -> route_after_policy_approval(state)

\* the label mapping of approve_policies without the revision label
PathMap_no_revision(node) ==
    CASE node = "approve_bc" ->
             ("breakdown_user_story" :> "breakdown_user_story")
             @@ ("identify_bc" :> "identify_bc")
      [] node = "breakdown_user_story" ->
             ("breakdown_user_story" :> "breakdown_user_story")
             @@ ("extract_aggregates" :> "extract_aggregates")
      [] node = "extract_aggregates" ->
             ("extract_aggregates" :> "extract_aggregates")
             @@ ("approve_aggregates" :> "approve_aggregates")
      [] node = "approve_aggregates" ->
             ("extract_commands" :> "extract_commands")
             @@ ("extract_aggregates" :> "extract_aggregates")
      [] node = "approve_policies" ->
             ("save_to_graph" :> "save_to_graph")

\* the label mapping (third argument) of each add_conditional_edges
PathMap(node) ==
    CASE node = "approve_bc" ->
             ("breakdown_user_story" :> "breakdown_user_story")
             @@ ("identify_bc" :> "identify_bc")
      [] node = "breakdown_user_story" ->
             ("breakdown_user_story" :> "breakdown_user_story")
             @@ ("extract_aggregates" :> "extract_aggregates")
      [] node = "extract_aggregates" ->
             ("extract_aggregates" :> "extract_aggregates")
             @@ ("approve_aggregates" :> "approve_aggregates")
      [] node = "approve_aggregates" ->
             ("extract_commands" :> "extract_commands")
             @@ ("extract_aggregates" :> "extract_aggregates")
      [] node = "approve_policies" ->
             ("save_to_graph" :> "save_to_graph")
             @@ ("identify_policies" :> "identify_policies")

route_after_scope_analysis(state) ==
    IF state.change_scope \in {"cross_bc", "new_capability"}
    THEN "search_related"
    ELSE "generate_plan"

\* the nodes of the change-planning graph and the label mapping of its one
\* conditional edge, the one leaving analyze_scope
ChangeNodes ==
    {"analyze_scope", "search_related", "generate_plan", "revise_plan", "apply_changes"}

ChangePathMap ==
    ("search_related" :> "search_related") @@ ("generate_plan" :> "generate_plan")

\* C18: whatever a router returns is a key of its edge's label mapping and
\* is mapped to a registered step or END: in every reachable state for the
\* five conditional edges of the event-storming graph (the mapped step
\* being the one the engine goes to), and for every change_scope for the
\* conditional edge of the change-planning graph.
C18_RouterLabelsMapped ==
    /\ \A node \in ConditionalEdges :
           LET label == Router(node, values)
           IN /\ label \in DOMAIN PathMap(node)
              /\ PathMap(node)[label] \in Nodes \cup {END}
              /\ last_node = node => next = PathMap(node)[label]
    /\ \A scope \in ChangeScope \cup {NoScope} :
           LET label == route_after_scope_analysis([change_scope |-> scope])
           IN /\ label \in DOMAIN ChangePathMap
              /\ ChangePathMap[label] \in ChangeNodes \cup {END}

\* the router of approve_policies has returned the revision label and the
\* engine is about to run identify_policies again
C18_Witness ==
    /\ last_node = "approve_policies"
    /\ pc = "streaming"
    /\ Router("approve_policies", values) = "identify_policies"
    /\ next = "identify_policies"

\* ------------------------------------------------- read-model extraction
\* C19: the step that runs while phase = EXTRACT_READMODELS, the phase
\* extract_commands leaves, is extract_readmodels: read models are
\* extracted after the commands and before the events.
C19_ReadModelsAfterCommands ==
    values.phase = "extract_readmodels" => next = "extract_readmodels"

\* ---------------------------------------------- approval without feedback
\* C20: an approval step that has executed on no feedback (None or '')
\* leaves the session waiting at that same step: awaiting_human_approval is
\* true, the candidates are what they were, and the step to run next is
\* the approval step again, not a producer.
C20_NoFeedbackKeepsWaiting ==
    \A n \in ApprovalSteps :
        JustRan(n, "none") =>
            /\ values.awaiting_human_approval
            /\ CandidateField(n) \notin DOMAIN last_delta
            /\ next = n

\* ------------------------------------------------------ the phase pointer
\* a checkpoint of the session exists: start() has written the input
Persisted == current_state # <<>>

\* C25: in every persisted checkpoint phase = COMPLETE exactly when the
\* step to run next is the terminal marker (is_complete() is true exactly
\* for the sessions that reached END), on every path.
C25_CompleteIffEnd ==
    Persisted => (values.phase = "complete" <=> next = END)

\* C26: save_to_graph is the next step or has executed only if approve_bc,
\* approve_aggregates and approve_policies have each executed with
\* acceptance, an approval step accepting only after the one before it has,
\* and the step to run next is save_to_graph only when the latest
\* approve_policies execution read an acceptance.
C26_SaveOnlyAfterApprovals ==
    /\ (next = "save_to_graph" \/ executed["save_to_graph"] > 0) =>
           \A n \in ApprovalSteps : outcomes[n].accept >= 1
    /\ outcomes["approve_policies"].accept >= 1 =>
           outcomes["approve_aggregates"].accept >= 1
    /\ outcomes["approve_aggregates"].accept >= 1 =>
           outcomes["approve_bc"].accept >= 1
    /\ next = "save_to_graph" => JustRan("approve_policies", "accept")

\* save_to_graph has executed in a session whose policy review was first
\* rejected, then accepted
C26_Witness ==
    /\ executed["save_to_graph"] = 1
    /\ outcomes["approve_policies"].reject >= 1
    /\ outcomes["approve_policies"].accept = 1
    /\ next = END

\* nodes.py route_by_phase: the step name of each WorkflowPhase
phase_routes ==
    ("init" :> "init")
    @@ ("load_user_stories" :> "load_user_stories")
    @@ ("select_user_story" :> "select_user_story")
    @@ ("identify_bc" :> "identify_bc")
    @@ ("approve_bc" :> "approve_bc")
    @@ ("breakdown_user_story" :> "breakdown_user_story")
    @@ ("extract_aggregates" :> "extract_aggregates")
    @@ ("approve_aggregates" :> "approve_aggregates")
    @@ ("extract_commands" :> "extract_commands")
    @@ ("extract_readmodels" :> "extract_readmodels")
    @@ ("extract_events" :> "extract_events")
    @@ ("generate_ui" :> "generate_ui")
    @@ ("identify_policies" :> "identify_policies")
    @@ ("approve_policies" :> "approve_policies")
    @@ ("save_to_graph" :> "save_to_graph")
    @@ ("complete" :> "complete")

route_by_phase(state) ==
    IF state.phase \in DOMAIN phase_routes
    THEN phase_routes[state.phase]
    ELSE "complete"

\* C27: in every persisted checkpoint route_by_phase(state) names the step
\* the checkpoint runs next ("complete" standing for the terminal marker),
\* so that at every suspension phase is the phase of the pending approval
\* step.
C27_PhaseNamesNextStep ==
    Persisted =>
        route_by_phase(values) = (IF next = END THEN "complete" ELSE next)

\* the step from the current state is an execution of iteration step n
\* that finds a bounded context at current_bc_index
Processes(n) ==
    /\ executed'[n] = executed[n] + 1
    /\ values.current_bc_index < Len(values.approved_bcs)

\* every approved bounded context has an entry in aggregate_candidates
AllAggregatesExtracted ==
    \A i \in 1..Len(values.approved_bcs) :
        values.approved_bcs[i].id \in DOMAIN values.aggregate_candidates

C28_InIndexOrder ==
    \A n \in IterationSteps :
        Processes(n) =>
            /\ values'.current_bc_index = values.current_bc_index + 1
            /\ values.current_bc_index > 0 => last_node = n
            /\ (next' = n) <=>
                   (values'.current_bc_index < Len(values'.approved_bcs))
            /\ n = "extract_aggregates" =>
                   values.approved_bcs[values.current_bc_index + 1].id
                       \in DOMAIN values'.aggregate_candidates

\* C28: in each iteration pass breakdown_user_story and extract_aggregates
\* process every approved bounded context exactly once and in index order
\* (a processing execution takes the bounded context at current_bc_index
\* and advances the index by one, a pass begins at index 0 and is left only
\* at index N), so whenever the session is suspended before
\* approve_aggregates, aggregate_candidates has an entry for every id in
\* approved_bcs.
C28_EveryBCOncePerPass ==
    /\ [][C28_InIndexOrder]_vars
    /\ [](Suspended /\ next = "approve_aggregates" => AllAggregatesExtracted)
    /\ [](\A n \in IterationSteps :
              TookExitEdge(n) => pass_execs[n] = Len(values.approved_bcs))

\* suspended before approve_aggregates after passes over two bounded
\* contexts
C28_Witness ==
    /\ Suspended
    /\ next = "approve_aggregates"
    /\ Len(values.approved_bcs) = 2
    /\ executed["breakdown_user_story"] = 2
    /\ executed["extract_aggregates"] = 3
    /\ AllAggregatesExtracted

\* C29: 0 <= current_bc_index <= len(approved_bcs) in every reachable state,
\* and breakdown_user_story and extract_aggregates never read approved_bcs
\* at an index outside its range.
C29_IndexInRange ==
    /\ 0 <= values.current_bc_index
    /\ values.current_bc_index <= Len(values.approved_bcs)
    /\ (next \in IterationSteps
          /\ values.current_bc_index < Len(values.approved_bcs)) =>
           values.current_bc_index + 1 \in DOMAIN values.approved_bcs

\* extract_aggregates is about to read the last of two approved bounded
\* contexts
C29_Witness ==
    /\ next = "extract_aggregates"
    /\ pc = "streaming"
    /\ Len(values.approved_bcs) = 2
    /\ values.current_bc_index = 1
    /\ last_node = "extract_aggregates"

\* the approval step that writes each approved_* field
ApprovalWriter ==
    ("approved_bcs" :> "approve_bc")
    @@ ("approved_aggregates" :> "approve_aggregates")
    @@ ("approved_policies" :> "approve_policies")

\* the empty value of each approved_* field
EmptyApproved ==
    ("approved_bcs" :> <<>>)
    @@ ("approved_aggregates" :> EmptyDict)
    @@ ("approved_policies" :> <<>>)

C30_SetOnce ==
    \A f \in DOMAIN ApprovalWriter :
        values'[f] # values[f] =>
            /\ outcomes[ApprovalWriter[f]].accept = 0
            /\ outcomes'[ApprovalWriter[f]].accept = 1

\* C30: approved_bcs, approved_aggregates and approved_policies are each
\* empty until their approval step executes with acceptance, once set they
\* are never changed again, and each approval step executes with acceptance
\* at most once per session.
C30_ApprovedFieldsFinal ==
    /\ [](\A f \in DOMAIN ApprovalWriter :
              /\ outcomes[ApprovalWriter[f]].accept = 0 =>
                     values[f] = EmptyApproved[f]
              /\ outcomes[ApprovalWriter[f]].accept <= 1)
    /\ [][C30_SetOnce]_vars

\* ================================================ change-planning workflow
\* a state update merged into the channels: ChangePlanningState declares no
\* reducer, every key of the update overwrites
ChangeMerge(state, delta) ==
    [k \in DOMAIN state |-> IF k \in DOMAIN delta THEN delta[k] ELSE state[k]]

\* what the LLM answers as "scope", the keywords it proposes, the objects
\* the vector search finds
ScopeAnswers == {"LOCAL", "CROSS_BC", "NEW_CAPABILITY", "OTHER"}
KeywordLists == {<<>>, <<"notification">>}
RelatedLists == {<<>>, <<"POL-NOTIFY">>}

\* an LLM answer that json.loads rejects: as a scope answer, as a plan
UnparsableAnswer == "<unparsable>"
UnparsablePlan == <<"<unparsable>">>

\* the external outputs one planning run consumes: the scope answer, the
\* plan answer, the keywords, the objects found
ChangeOutputs ==
    [ scope : ScopeAnswers \cup {UnparsableAnswer},
      changes : PlanLists \cup {UnparsablePlan},
      keywords : KeywordLists, found : RelatedLists ]

\* scope_map.get(result["scope"], ChangeScope.LOCAL)
scope_map(scope) ==
    CASE scope = "LOCAL" -> "local"
      [] scope = "CROSS_BC" -> "cross_bc"
      [] scope = "NEW_CAPABILITY" -> "new_capability"
      [] OTHER -> "local"

analyze_scope_node(state, out) ==
    IF out.scope # UnparsableAnswer
    THEN [ phase |-> IF out.scope # "LOCAL" THEN "search_related" ELSE "generate_plan",
           change_scope |-> scope_map(out.scope),
           keywords_to_search |-> out.keywords ]
    ELSE [ phase |-> "generate_plan",
           change_scope |-> "local",
           keywords_to_search |-> <<>> ]

search_related_objects_node(state, out) ==
    IF state.keywords_to_search = <<>>
    THEN [ phase |-> "generate_plan", related_objects |-> <<>> ]
    ELSE [ phase |-> "generate_plan", related_objects |-> out.found ]

\* generate_plan_node whose except branch does not ask for approval
generate_plan_node_silent(state, out) ==
    IF out.changes # UnparsablePlan
    THEN [ phase |-> "await_approval",
           proposed_changes |-> out.changes,
           awaiting_approval |-> TRUE ]
    ELSE [ phase |-> "await_approval",
           error |-> <<"Error generating plan">>,
           proposed_changes |-> <<>> ]

generate_plan_node(state, out) ==
    IF out.changes # UnparsablePlan
    THEN [ phase |-> "await_approval",
           proposed_changes |-> out.changes,
           awaiting_approval |-> TRUE ]
    ELSE [ phase |-> "await_approval",
           error |-> <<"Error generating plan">>,
           proposed_changes |-> <<>>,
           awaiting_approval |-> TRUE ]

revise_plan_node(state, out) ==
    IF ~Truthy(state.human_feedback)
    THEN [ phase |-> "await_approval" ]
    ELSE IF out.changes # UnparsablePlan
    THEN [ phase |-> "await_approval",
           human_feedback |-> None,
           proposed_changes |-> out.changes,
           awaiting_approval |-> TRUE,
           revision_count |-> state.revision_count + 1 ]
    ELSE [ phase |-> "await_approval",
           error |-> <<"Error revising plan">> ]

\* one applied entry for the user story and one per proposed change
apply_changes_node(state) ==
    [ phase |-> "complete",
      awaiting_approval |-> FALSE,
      applied_changes |-> <<"UserStory">> \o state.proposed_changes ]

\* the update the node returns on the outputs out
ChangeNodeDelta(node, state, out) ==
    CASE node = "analyze_scope" -> analyze_scope_node(state, out)
      [] node = "search_related" -> search_related_objects_node(state, out)
      [] node = "generate_plan" -> generate_plan_node(state, out)
      [] node = "revise_plan" -> revise_plan_node(state, out)
      [] node = "apply_changes" -> apply_changes_node(state)

\* the edges of create_change_planning_graph
ChangeNextStep(node, state) ==
    CASE node = START -> "analyze_scope"
      [] node = "analyze_scope" -> ChangePathMap[route_after_scope_analysis(state)]
      [] node = "search_related" -> "generate_plan"
      [] node = "generate_plan" -> END
      [] node = "revise_plan" -> END
      [] node = "apply_changes" -> END

\* every action of the change-planning workflow leaves these alone
outside_change == << runner_vars, expected, twin, ingest_vars >>

\* ChangePlanningRunner.start on a fresh runner: the initial state is
\* written and the graph streams from its entry point
ChangeStart ==
    /\ cp_pc = "idle"
    /\ cp_next = START
    /\ cp_values' = ChangePlanningState
    /\ cp_next' = ChangeNextStep(START, ChangePlanningState)
    /\ cp_pc' = "streaming"
    /\ cp_current_state' = <<ChangePlanningState>>
    /\ cp_call_trace' = <<>>
    /\ UNCHANGED << cp_last_node, cp_calls, cp_feedback, cp_revision_before,
                    api_feedback, api_previous_plan, api_path, api_result >>
    /\ UNCHANGED outside_change

\* one step of the graph: the next node runs, its update is merged, its
\* outgoing edge chooses the next node; the call returns at END
ChangeStep ==
    \E out \in ChangeOutputs :
        /\ cp_pc = "streaming"
        /\ cp_next \in ChangeNodes
        /\ LET merged == ChangeMerge(cp_values,
                                     ChangeNodeDelta(cp_next, cp_values, out))
               target == ChangeNextStep(cp_next, merged)
           IN /\ cp_values' = merged
              /\ cp_next' = target
              /\ cp_pc' = IF target = END THEN "idle" ELSE "streaming"
              /\ cp_current_state' = <<merged>>
        /\ cp_last_node' = cp_next
        /\ cp_call_trace' = Append(cp_call_trace, cp_next)
        /\ UNCHANGED << cp_calls, cp_feedback, cp_revision_before,
                        api_feedback, api_previous_plan, api_path, api_result >>
        /\ UNCHANGED outside_change

\* ChangePlanningRunner.provide_feedback(feedback): two update_state calls
\* write the feedback and the phase as the node that wrote last, which
\* re-evaluates that node's outgoing edge; invoke(None) then runs whatever
\* the checkpoint has next. With nothing next no node runs, and invoke
\* returns the checkpointed values or, depending on the engine's release,
\* None.
ChangeProvideFeedback ==
    \E feedback \in Feedbacks, returned \in BOOLEAN :
        /\ cp_pc = "idle"
        /\ cp_current_state # <<>>
        /\ cp_calls < MaxCalls
        /\ LET patched == ChangeMerge(cp_values,
                              [ phase |-> IF upper(feedback) = APPROVED
                                          THEN "apply_changes"
                                          ELSE "revise_plan",
                                human_feedback |-> feedback,
                                awaiting_approval |-> FALSE ])
               target == ChangeNextStep(cp_last_node, patched)
           IN /\ cp_values' = patched
              /\ cp_next' = target
              /\ IF target = END
                 THEN /\ cp_pc' = "idle"
                      /\ cp_current_state' =
                             IF returned THEN <<patched>> ELSE <<>>
                 ELSE /\ cp_pc' = "streaming"
                      /\ cp_current_state' = <<patched>>
        /\ cp_calls' = cp_calls + 1
        /\ cp_feedback' = feedback
        /\ cp_call_trace' = <<>>
        /\ cp_revision_before' = cp_values.revision_count
        /\ UNCHANGED << cp_last_node, api_feedback, api_previous_plan,
                        api_path, api_result >>
        /\ UNCHANGED outside_change

\* graph.stream of a fresh runner from node until END, on the outputs out
RECURSIVE StreamToEnd(_, _, _)
StreamToEnd(state, node, out) ==
    IF node = END
    THEN state
    ELSE LET merged == ChangeMerge(state, ChangeNodeDelta(node, state, out))
         IN StreamToEnd(merged, ChangeNextStep(node, merged), out)

\* Python truthiness of an Optional[List]
TruthyList(l) == l # None /\ Len(l) > 0

\* run_change_planning(..., feedback, previous_plan) behind POST /plan: a
\* new runner per call; with feedback and a previous plan it applies
\* revise_plan_node to the reconstructed state, otherwise it starts a fresh
\* planning run
run_change_planning ==
    \E feedback \in Feedbacks \cup {None},
       previous_plan \in PlanLists \cup {None},
       out \in ChangeOutputs :
        /\ api_feedback' = feedback
        /\ api_previous_plan' = previous_plan
        /\ IF Truthy(feedback) /\ TruthyList(previous_plan)
           THEN LET state == ChangeMerge(ChangePlanningState,
                                 [ phase |-> "revise_plan",
                                   human_feedback |-> feedback,
                                   proposed_changes |-> previous_plan ])
                    result == revise_plan_node(state, out)
                IN /\ api_path' = "revision"
                   /\ api_result' =
                          [ scope |-> "local",
                            changes |-> IF "proposed_changes" \in DOMAIN result
                                        THEN result.proposed_changes
                                        ELSE <<>> ]
           ELSE LET final_state ==
                        StreamToEnd(ChangePlanningState,
                                    ChangeNextStep(START, ChangePlanningState),
                                    out)
                IN /\ api_path' = "fresh"
                   /\ api_result' =
                          [ scope |-> final_state.change_scope,
                            changes |-> final_state.proposed_changes ]
        /\ UNCHANGED << cp_values, cp_next, cp_last_node, cp_pc,
                        cp_current_state, cp_calls, cp_feedback,
                        cp_call_trace, cp_revision_before >>
        /\ UNCHANGED outside_change

\* a ChangePlanningRunner driven directly
ChangeNext ==
    \/ ChangeStart
    \/ ChangeStep
    \/ ChangeProvideFeedback

ChangeSpec == Init /\ [][ChangeNext]_vars

\* the requests POST /plan serves, each on a runner of its own
PlanApiSpec == Init /\ [][run_change_planning]_vars

\* a ChangePlanningRunner.provide_feedback call has returned
FeedbackReturned == cp_pc = "idle" /\ cp_calls > 0

\* C21: ChangePlanningRunner.provide_feedback runs the step matching the
\* feedback: "APPROVED" (in any letter case) runs apply_changes and the
\* call returns phase = COMPLETE with awaiting_approval = false; any other
\* feedback runs revise_plan, the call returns awaiting_approval = true and,
\* unless the revision failed, revision_count has increased by exactly one.
C21_FeedbackRunsMatchingStep ==
    FeedbackReturned =>
        IF upper(cp_feedback) = APPROVED
        THEN /\ cp_call_trace = <<"apply_changes">>
             /\ cp_current_state # <<>>
             /\ cp_current_state[1].phase = "complete"
             /\ ~cp_current_state[1].awaiting_approval
        ELSE /\ cp_call_trace = <<"revise_plan">>
             /\ cp_current_state # <<>>
             /\ cp_current_state[1].awaiting_approval
             /\ \/ cp_values.revision_count = cp_revision_before + 1
                \/ cp_values.error # None
                \/ ~Truthy(cp_feedback)

\* C22: whenever run_change_planning is given feedback, the call takes the
\* revision path, whatever previous_plan accompanies the feedback.
C22_FeedbackTakesRevisionPath ==
    Truthy(api_feedback) => api_path = "revision"

\* ===================================================== ingestion workflow
\* ingestion.py run_ingestion_workflow: after the PARSING event, phases 2 to
\* 9 in order. A phase yields its start event, makes its extraction call,
\* saves the objects it got and yields one event per object saved.
PhaseName ==
    (2 :> "extracting_user_stories")
    @@ (3 :> "identifying_bc")
    @@ (4 :> "extracting_aggregates")
    @@ (5 :> "extracting_commands")
    @@ (6 :> "extracting_readmodels")
    @@ (7 :> "extracting_events")
    @@ (8 :> "identifying_policies")
    @@ (9 :> "generating_properties")

FirstPhase == 2
LastPhase == 9

\* progress of a phase's start event
StartProgress ==
    (2 :> 10) @@ (3 :> 25) @@ (4 :> 45) @@ (5 :> 60) @@ (6 :> 67)
    @@ (7 :> 75) @@ (8 :> 90) @@ (9 :> 91)

\* the phases followed by an "if session.is_paused" check, and the progress
\* of the PAUSED event that test yields
PauseProgress ==
    (2 :> 20) @@ (3 :> 40) @@ (4 :> 55) @@ (5 :> 65) @@ (6 :> 72)
    @@ (7 :> 75) @@ (8 :> 85)

HasPauseCheck(p) == p \in DOMAIN PauseProgress

\* the phases whose extraction call is outside any inner try: a failure
\* reaches the workflow's except clause
CallPropagates == {2, 3, 4}

\* the phases whose save call (client.create_...) is outside any inner try
SavePropagates == {3, 4, 5, 6, 7}

\* the phases in which an object can be passed over without an event: the
\* save is inside "try ... except: pass", or the event is yielded only when
\* the ids it links were found
SaveSkips == {2, 7, 8, 9}

Max(a, b) == IF a >= b THEN a ELSE b

\* progress of the event yielded for object k (counted from 0) of n
ItemProgress(p, k, n) ==
    CASE p = 2 -> {10 + ((10 * (k + 1)) \div n)}
      [] p = 3 -> {30 + ((10 * k) \div Max(n, 1))}
      [] p = 4 -> {45 + (10 \div Max(n, 1)) * k}
      [] p = 5 -> {65}
      [] p = 6 -> {70}
      [] p = 7 -> {80}
      [] p = 8 -> {90}
      [] p = 9 -> {92, 93, 95, 96, 97, 98, 99}

TerminalPhases == {"complete", "error"}

\* where the generator stands after its except clause has yielded ERROR:
\* the function body is over
AfterError_continues == "finish"

AfterError == "ended"

\* every action of the ingestion workflow leaves these alone
outside_ingest == << runner_vars, expected, twin, change_vars >>

\* the generator yields an event and stream_progress's add_event records it
Emit(phase, value) ==
    /\ status' = phase
    /\ progress' = value
    /\ terminal_events' =
           IF phase \in TerminalPhases THEN terminal_events + 1 ELSE terminal_events
    /\ events_after_terminal' = (events_after_terminal \/ terminal_events > 0)

NoEvent == UNCHANGED << status, progress, terminal_events, events_after_terminal >>

\* the workflow's "except Exception": one ERROR event with progress 0
RaiseError ==
    /\ Emit("error", 0)
    /\ gen_pc' = AfterError

\* the step serves no pause or resume request
NoRequest == request' = "none" /\ response' = "none"

\* a second execution of the workflow on the same session
second_stream == << second_pc, second_phase >>

\* GET /stream/{session_id}: the generator starts and yields PARSING
stream_progress ==
    /\ gen_pc = "created"
    /\ session_open
    /\ Emit("parsing", 5)
    /\ gen_pc' = "start"
    /\ phase_no' = FirstPhase
    /\ UNCHANGED << session_open, is_paused, items_n, item_k, pauses >>
    /\ NoRequest
    /\ UNCHANGED second_stream
    /\ UNCHANGED outside_ingest

\* the start event of the phase
StartPhase ==
    /\ gen_pc = "start"
    /\ Emit(PhaseName[phase_no], StartProgress[phase_no])
    /\ gen_pc' = "call"
    /\ UNCHANGED << session_open, is_paused, phase_no, items_n, item_k, pauses >>
    /\ NoRequest
    /\ UNCHANGED second_stream
    /\ UNCHANGED outside_ingest

\* the extraction call of the phase: it returns n objects, or it fails; a
\* failure inside an inner try leaves the phase with no object
ExternalCall ==
    /\ gen_pc = "call"
    /\ \/ \E n \in 0..MaxItems :
              /\ NoEvent
              /\ items_n' = n
              /\ item_k' = 0
              /\ gen_pc' = IF n = 0 THEN "finish" ELSE "items"
       \/ /\ phase_no \in CallPropagates
          /\ RaiseError
          /\ UNCHANGED << items_n, item_k >>
    /\ UNCHANGED << session_open, is_paused, phase_no, pauses >>
    /\ NoRequest
    /\ UNCHANGED second_stream
    /\ UNCHANGED outside_ingest

\* one object of the phase: saved and announced, passed over, or the save
\* fails outside any inner try
SaveItem ==
    /\ gen_pc = "items"
    /\ \/ /\ \E value \in ItemProgress(phase_no, item_k, items_n) :
                 Emit(PhaseName[phase_no], value)
          /\ item_k' = item_k + 1
          /\ gen_pc' = IF item_k + 1 = items_n THEN "finish" ELSE "items"
       \/ /\ phase_no \in SaveSkips
          /\ NoEvent
          /\ item_k' = item_k + 1
          /\ gen_pc' = IF item_k + 1 = items_n THEN "finish" ELSE "items"
       \/ /\ phase_no \in SavePropagates
          /\ RaiseError
          /\ UNCHANGED item_k
    /\ UNCHANGED << session_open, is_paused, phase_no, items_n, pauses >>
    /\ NoRequest
    /\ UNCHANGED second_stream
    /\ UNCHANGED outside_ingest

\* the end of the phase: user-story extraction yields its summary event
\* (progress 20); then the PAUSED check if the phase has one, else the
\* next phase, and COMPLETE after the last
FinishPhase ==
    /\ gen_pc = "finish"
    /\ IF phase_no = 2
       THEN Emit(PhaseName[2], 20)
       ELSE NoEvent
    /\ IF HasPauseCheck(phase_no)
       THEN gen_pc' = "check" /\ UNCHANGED phase_no
       ELSE IF phase_no < LastPhase
       THEN gen_pc' = "start" /\ phase_no' = phase_no + 1
       ELSE gen_pc' = "complete" /\ UNCHANGED phase_no
    /\ UNCHANGED << session_open, is_paused, items_n, item_k, pauses >>
    /\ NoRequest
    /\ UNCHANGED second_stream
    /\ UNCHANGED outside_ingest

\* "if session.is_paused: yield PAUSED; await wait_if_paused(session)"
PauseCheck ==
    /\ gen_pc = "check"
    /\ IF is_paused
       THEN /\ Emit("paused", PauseProgress[phase_no])
            /\ gen_pc' = "waiting"
            /\ UNCHANGED phase_no
       ELSE /\ NoEvent
            /\ IF phase_no < LastPhase
               THEN gen_pc' = "start" /\ phase_no' = phase_no + 1
               ELSE gen_pc' = "complete" /\ UNCHANGED phase_no
    /\ UNCHANGED << session_open, is_paused, items_n, item_k, pauses >>
    /\ NoRequest
    /\ UNCHANGED second_stream
    /\ UNCHANGED outside_ingest

\* wait_if_paused returns: at once if the session is no longer paused, else
\* when a poll of its loop finds is_paused false
wait_if_paused ==
    /\ gen_pc = "waiting"
    /\ ~is_paused
    /\ NoEvent
    /\ IF phase_no < LastPhase
       THEN gen_pc' = "start" /\ phase_no' = phase_no + 1
       ELSE gen_pc' = "complete" /\ UNCHANGED phase_no
    /\ UNCHANGED << session_open, is_paused, items_n, item_k, pauses >>
    /\ NoRequest
    /\ UNCHANGED second_stream
    /\ UNCHANGED outside_ingest

\* the last statement of the try block
Complete ==
    /\ gen_pc = "complete"
    /\ Emit("complete", 100)
    /\ gen_pc' = "ended"
    /\ UNCHANGED << session_open, is_paused, phase_no, items_n, item_k, pauses >>
    /\ NoRequest
    /\ UNCHANGED second_stream
    /\ UNCHANGED outside_ingest

\* stream_progress after the generator is exhausted: del _sessions[id]
Cleanup ==
    /\ gen_pc = "ended"
    /\ session_open' = FALSE
    /\ gen_pc' = "closed"
    /\ NoEvent
    /\ UNCHANGED << is_paused, phase_no, items_n, item_k, pauses >>
    /\ NoRequest
    /\ UNCHANGED second_stream
    /\ UNCHANGED outside_ingest

\* the statuses on which pause_ingestion refuses
PauseRefused_on_complete(s) == s = "complete"

PauseRefused(s) == s \in TerminalPhases

\* POST /{session_id}/pause: not found without the session, refused on a
\* COMPLETE or ERROR status, otherwise is_paused is set
pause_ingestion ==
    /\ request' = "pause"
    /\ IF ~session_open
       THEN /\ response' = "not_found"
            /\ UNCHANGED << is_paused, pauses >>
       ELSE IF PauseRefused(status)
       THEN /\ response' = "bad_request"
            /\ UNCHANGED << is_paused, pauses >>
       ELSE /\ pauses < MaxPauses
            /\ response' = "paused"
            /\ is_paused' = TRUE
            /\ pauses' = pauses + 1
    /\ NoEvent
    /\ UNCHANGED << session_open, gen_pc, phase_no, items_n, item_k >>
    /\ UNCHANGED second_stream
    /\ UNCHANGED outside_ingest

\* POST /{session_id}/resume: not found without the session, refused when
\* the session is not paused, otherwise is_paused is cleared
resume_ingestion ==
    /\ request' = "resume"
    /\ IF ~session_open
       THEN /\ response' = "not_found"
            /\ UNCHANGED is_paused
       ELSE IF ~is_paused
       THEN /\ response' = "bad_request"
            /\ UNCHANGED is_paused
       ELSE /\ response' = "resumed"
            /\ is_paused' = FALSE
    /\ NoEvent
    /\ UNCHANGED << session_open, gen_pc, phase_no, items_n, item_k, pauses >>
    /\ UNCHANGED second_stream
    /\ UNCHANGED outside_ingest

\* the steps of the generator and of the stream that drives it
Workflow ==
    \/ stream_progress
    \/ StartPhase
    \/ ExternalCall
    \/ SaveItem
    \/ FinishPhase
    \/ PauseCheck
    \/ wait_if_paused
    \/ Complete
    \/ Cleanup

IngestNext ==
    \/ stream_progress
    \/ StartPhase
    \/ ExternalCall
    \/ SaveItem
    \/ FinishPhase
    \/ PauseCheck
    \/ wait_if_paused
    \/ Complete
    \/ Cleanup
    \/ pause_ingestion
    \/ resume_ingestion

\* the stream is consumed and every external call returns or raises
IngestSpec == Init /\ [][IngestNext]_vars /\ WF_vars(Workflow)

\* in addition every pause is eventually followed by a resume
IngestResumedSpec == IngestSpec /\ WF_vars(resume_ingestion)

\* the workflow has yielded PAUSED at a check and has not moved on since
PausedEmitted == gen_pc = "waiting" /\ status = "paused"

\* C23: after pause_ingestion is accepted the workflow eventually emits a
\* PAUSED event unless resume_ingestion is called first, at whichever point
\* of the workflow the request arrives, and once PAUSED is emitted no other
\* event follows while the session stays paused.
C23_PauseTakesEffect ==
    /\ is_paused ~> (PausedEmitted \/ ~is_paused)
    /\ [][(PausedEmitted /\ is_paused /\ is_paused') =>
              UNCHANGED << status, progress, terminal_events >>]_vars

GeneratorOver == gen_pc \in {"ended", "closed"}

\* C24: run_ingestion_workflow yields a finite sequence of events whose
\* last event is COMPLETE (progress 100) or ERROR, with exactly one such
\* terminal event and no event after it, provided every external call
\* returns or raises and every pause is eventually followed by a resume.
C24_OneTerminalEvent ==
    /\ <>GeneratorOver
    /\ [](terminal_events <= 1 /\ ~events_after_terminal)
    /\ [](GeneratorOver =>
              /\ terminal_events = 1
              /\ status \in TerminalPhases
              /\ status = "complete" => progress = 100)
    /\ [](status \in TerminalPhases => GeneratorOver)

\* the workflow has completed after it was paused and resumed
C24_Witness ==
    /\ gen_pc = "closed"
    /\ status = "complete"
    /\ progress = 100
    /\ pauses >= 1
    /\ ~is_paused
    /\ terminal_events = 1

\* ChangePlanningRunner.start has returned and no feedback was given yet
StartReturned == cp_pc = "idle" /\ cp_calls = 0 /\ cp_current_state # <<>>

\* C31: ChangePlanningRunner.start() returns a state with phase =
\* AWAIT_APPROVAL and awaiting_approval = true, having executed
\* analyze_scope once, then search_related once exactly when change_scope is
\* CROSS_BC or NEW_CAPABILITY, then generate_plan once, whether or not the
\* LLM answers parsed.
C31_StartReachesApproval ==
    StartReturned =>
        /\ cp_current_state[1].phase = "await_approval"
        /\ cp_current_state[1].awaiting_approval
        /\ cp_current_state[1] = cp_values
        /\ IF cp_values.change_scope \in {"cross_bc", "new_capability"}
           THEN cp_call_trace = <<"analyze_scope", "search_related", "generate_plan">>
           ELSE cp_call_trace = <<"analyze_scope", "generate_plan">>

\* start() has returned after a search and a plan answer that did not parse
C31_Witness ==
    /\ StartReturned
    /\ cp_call_trace = <<"analyze_scope", "search_related", "generate_plan">>
    /\ cp_values.error # None
    /\ cp_values.related_objects # <<>>

\* C32: after analyze_scope, phase = SEARCH_RELATED if and only if
\* route_after_scope_analysis selects search_related as the next step, for
\* every scope answer and for the parse-failure path.
C32_PhaseAgreesWithRoute ==
    cp_last_node = "analyze_scope" =>
        (cp_values.phase = "search_related" <=> cp_next = "search_related")

\* what pause_ingestion and resume_ingestion may write in the session
session_fields ==
    << session_open, status, progress, is_paused, terminal_events,
       events_after_terminal >>

C33_Refusal ==
    /\ (request' = "pause" /\ session_open /\ status \in TerminalPhases) =>
           (response' = "bad_request" /\ UNCHANGED session_fields)
    /\ (request' = "resume" /\ session_open /\ ~is_paused) =>
           (response' = "bad_request" /\ ~is_paused' /\ UNCHANGED session_fields)
    /\ (request' \in {"pause", "resume"} /\ ~session_open) =>
           (response' = "not_found" /\ ~session_open' /\ UNCHANGED session_fields)

\* C33: pause_ingestion and resume_ingestion reject invalid requests without
\* changing the session: pause on a COMPLETE or ERROR status is refused and
\* leaves is_paused unchanged, resume on a session that is not paused is
\* refused and leaves it not paused, and a request for a session that does
\* not exist is answered not-found and creates no session.
C33_InvalidRequestsRejected == [][C33_Refusal]_vars

\* pause has been refused on a session whose workflow ended with ERROR while
\* paused
C33_Witness ==
    /\ request = "pause"
    /\ response = "bad_request"
    /\ session_open
    /\ status = "error"
    /\ is_paused

\* the first stream's generator
first_stream == << gen_pc, phase_no, items_n, item_k >>

\* a generator of run_ingestion_workflow is between its first and its last
\* statement
Running(at) == at \notin {"none", "created", "ended", "closed"}

\* a further GET /stream/{session_id} while the session is still in
\* _sessions: stream_progress finds the session and its event_generator
\* runs run_ingestion_workflow(session, session.content) again, which
\* yields PARSING
stream_progress_again ==
    /\ second_pc = "none"
    /\ gen_pc # "created"
    /\ session_open
    /\ Emit("parsing", 5)
    /\ second_pc' = "start"
    /\ second_phase' = FirstPhase
    /\ UNCHANGED << session_open, is_paused, pauses >>
    /\ UNCHANGED first_stream
    /\ NoRequest
    /\ UNCHANGED outside_ingest

\* the second execution moves past a phase
SecondAdvance ==
    IF second_phase < LastPhase
    THEN second_pc' = "start" /\ second_phase' = second_phase + 1
    ELSE second_pc' = "complete" /\ UNCHANGED second_phase

\* the start event of the phase, in the second execution
SecondStartPhase ==
    /\ second_pc = "start"
    /\ Emit(PhaseName[second_phase], StartProgress[second_phase])
    /\ second_pc' = "call"
    /\ UNCHANGED second_phase
    /\ UNCHANGED << session_open, is_paused, pauses >>
    /\ UNCHANGED first_stream
    /\ NoRequest
    /\ UNCHANGED outside_ingest

\* the extraction call of the phase in the second execution: it returns no
\* object (user-story extraction then yields its summary event), or it fails
\* outside any inner try
SecondCall ==
    /\ second_pc = "call"
    /\ \/ /\ IF second_phase = 2
             THEN Emit(PhaseName[2], 20)
             ELSE NoEvent
          /\ IF HasPauseCheck(second_phase)
             THEN second_pc' = "check" /\ UNCHANGED second_phase
             ELSE SecondAdvance
       \/ /\ second_phase \in CallPropagates
          /\ Emit("error", 0)
          /\ second_pc' = "ended"
          /\ UNCHANGED second_phase
    /\ UNCHANGED << session_open, is_paused, pauses >>
    /\ UNCHANGED first_stream
    /\ NoRequest
    /\ UNCHANGED outside_ingest

\* "if session.is_paused: yield PAUSED; await wait_if_paused(session)" in
\* the second execution
SecondPauseCheck ==
    /\ second_pc = "check"
    /\ IF is_paused
       THEN /\ Emit("paused", PauseProgress[second_phase])
            /\ second_pc' = "waiting"
            /\ UNCHANGED second_phase
       ELSE /\ NoEvent
            /\ SecondAdvance
    /\ UNCHANGED << session_open, is_paused, pauses >>
    /\ UNCHANGED first_stream
    /\ NoRequest
    /\ UNCHANGED outside_ingest

\* wait_if_paused returns in the second execution
SecondWait ==
    /\ second_pc = "waiting"
    /\ ~is_paused
    /\ NoEvent
    /\ SecondAdvance
    /\ UNCHANGED << session_open, is_paused, pauses >>
    /\ UNCHANGED first_stream
    /\ NoRequest
    /\ UNCHANGED outside_ingest

\* the last statement of the try block, in the second execution
SecondComplete ==
    /\ second_pc = "complete"
    /\ Emit("complete", 100)
    /\ second_pc' = "ended"
    /\ UNCHANGED second_phase
    /\ UNCHANGED << session_open, is_paused, pauses >>
    /\ UNCHANGED first_stream
    /\ NoRequest
    /\ UNCHANGED outside_ingest

\* the second stream after its generator is exhausted: the session is
\* deleted if it is still in _sessions
SecondCleanup ==
    /\ second_pc = "ended"
    /\ session_open' = FALSE
    /\ second_pc' = "closed"
    /\ NoEvent
    /\ UNCHANGED second_phase
    /\ UNCHANGED << is_paused, pauses >>
    /\ UNCHANGED first_stream
    /\ NoRequest
    /\ UNCHANGED outside_ingest

TwoStreamsNext ==
    \/ stream_progress
    \/ StartPhase
    \/ ExternalCall
    \/ SaveItem
    \/ FinishPhase
    \/ PauseCheck
    \/ wait_if_paused
    \/ Complete
    \/ Cleanup
    \/ pause_ingestion
    \/ resume_ingestion
    \/ stream_progress_again
    \/ SecondStartPhase
    \/ SecondCall
    \/ SecondPauseCheck
    \/ SecondWait
    \/ SecondComplete
    \/ SecondCleanup

\* the ingestion session with a client that may request the stream twice
TwoStreamsSpec == Init /\ [][TwoStreamsNext]_vars

\* C34: at most one run_ingestion_workflow execution is active for an
\* ingestion session at any time: a second stream_progress request for a
\* session whose workflow is running starts no second concurrent workflow.
C34_OneWorkflowPerSession == ~(Running(gen_pc) /\ Running(second_pc))

\* C35: across the events yielded by one run_ingestion_workflow execution
\* the progress value is non-decreasing from the first event up to COMPLETE
\* (a terminal ERROR event aside), the PAUSED events included, so the
\* session's stored progress never moves backwards while the workflow
\* advances.
C35_ProgressNonDecreasing ==
    [][status' # "error" => progress' >= progress]_vars

====
